------------------------------ MODULE Spec2Model ------------------------------
(***************************************************************************)
(* A model of dh-icalnigma: the Rapla HTML extractor (main.rs), the        *)
(* iCalendar serializer (icalendar.rs, util.rs), the Event model           *)
(* (model.rs) and the archive merge (main.rs, archive.rs).                 *)
(*                                                                         *)
(* A Rust `String`/`&str` is modelled as the sequence of its UTF-8 bytes,  *)
(* so that byte lengths, byte offsets and char boundaries are what they    *)
(* are in the program.  Option<T> is a sequence of length 0 (None) or 1    *)
(* (Some).                                                                 *)
(***************************************************************************)
EXTENDS Integers, Sequences, FiniteSets, TLC

VARIABLES
  pc,         \* position of the operation under way
  line,       \* the logical line handed to the folding loop
  events,     \* the Vec<Event> handed to write_calendar
  output,     \* the output sink: the byte strings of the write! calls, in order
  panicked,   \* TRUE once the thread has panicked
  handle,     \* the DOM node handed to the extractor
  result,     \* what the extractor returned
  stderr,     \* the eprintln! messages, in order
  months,     \* main's `months`
  archive,    \* the archive file: <<>> when absent or corrupt, else <<Months>>
  outputFile  \* the output file on disk

vars == <<pc, line, events, output, panicked, handle, result, stderr, months,
          archive, outputFile>>

-----------------------------------------------------------------------------
(* Bounds of the model *)

\* ASCII padding lengths 0..MaxPad and  LINE_LIMIT-MaxPad .. LINE_LIMIT+MaxPad
MaxPad == 3
\* longest run of one repeated character appended to the padding
MaxRun == 40

-----------------------------------------------------------------------------
(* Characters and UTF-8 *)

None == <<>>
Some(x) == <<x>>

Rep(b, n) == [i \in 1..n |-> b]

Range(s) == {s[i] : i \in DOMAIN s}

Min(S) == CHOOSE x \in S : \A y \in S : x <= y

\* the concatenation of ss[lo..hi], halving the range
RECURSIVE FlattenRange(_, _, _)
FlattenRange(ss, lo, hi) ==
  IF lo > hi THEN <<>>
  ELSE IF lo = hi THEN ss[lo]
  ELSE LET mid == (lo + hi) \div 2
       IN FlattenRange(ss, lo, mid) \o FlattenRange(ss, mid + 1, hi)

\* the concatenation of a sequence of sequences
Flatten(ss) == FlattenRange(ss, 1, Len(ss))

\* s without the bytes at the positions in drop
Without(s, drop) ==
  LET Kept(p) == p[1] \notin drop
      kept == SelectSeq([i \in 1..Len(s) |-> <<i, s[i]>>], Kept)
  IN [j \in 1..Len(kept) |-> kept[j][2]]

\* char::len_utf8
Utf8Len(cp) ==
  IF cp < 128 THEN 1 ELSE IF cp < 2048 THEN 2 ELSE IF cp < 65536 THEN 3 ELSE 4

\* the UTF-8 encoding of a code point
EncodeUtf8(cp) ==
  CASE cp < 128   -> <<cp>>
    [] cp < 2048  -> <<192 + (cp \div 64), 128 + (cp % 64)>>
    [] cp < 65536 -> <<224 + (cp \div 4096), 128 + ((cp \div 64) % 64), 128 + (cp % 64)>>
    [] OTHER      -> <<240 + (cp \div 262144), 128 + ((cp \div 4096) % 64),
                       128 + ((cp \div 64) % 64), 128 + (cp % 64)>>

\* a UTF-8 continuation byte (10xxxxxx)
IsContinuation(b) == b \in 128..191

\* width of the encoded character whose lead byte is b (str::chars)
LeadWidth(b) ==
  IF b < 128 THEN 1 ELSE IF b < 224 THEN 2 ELSE IF b < 240 THEN 3 ELSE 4

\* the code point str::chars yields at 1-based byte position pos
DecodeAt(s, pos) ==
  LET b == s[pos] IN
  CASE b < 128 -> b
    [] b < 224 -> (b - 192) * 64 + (s[pos + 1] - 128)
    [] b < 240 -> (b - 224) * 4096 + (s[pos + 1] - 128) * 64 + (s[pos + 2] - 128)
    [] OTHER   -> (b - 240) * 262144 + (s[pos + 1] - 128) * 4096
                    + (s[pos + 2] - 128) * 64 + (s[pos + 3] - 128)

\* str::is_char_boundary, idx a 0-based byte index
IsCharBoundary(s, idx) ==
  \/ idx = 0
  \/ idx = Len(s)
  \/ idx < Len(s) /\ ~IsContinuation(s[idx + 1])

\* str::replace(",", "\\,")
EscapeCommas(s) ==
  Flatten([i \in 1..Len(s) |-> IF s[i] = 44 THEN <<92, 44>> ELSE <<s[i]>>])

-----------------------------------------------------------------------------
(* String literals of the program, as UTF-8 bytes *)

CRLF == <<13, 10>>
SPACE == <<32>>
COLON == <<58>>
S_BEGIN_VCALENDAR == <<66, 69, 71, 73, 78, 58, 86, 67, 65, 76, 69, 78, 68, 65, 82>>  \* 'BEGIN:VCALENDAR'
S_VERSION == <<86, 69, 82, 83, 73, 79, 78, 58, 50, 46, 48>>  \* 'VERSION:2.0'
S_PRODID == <<80, 82, 79, 68, 73, 68, 58, 45, 47, 47, 83, 105, 112, 104, 97, 108, 111, 114, 47, 47, 68, 72, 105, 67, 97, 108, 110, 105, 103, 109, 97, 47, 47, 68, 69>>  \* 'PRODID:-//Siphalor//DHiCalnigma//DE'
S_X_ICALNIGMA_TIME == <<88, 45, 73, 67, 65, 76, 78, 73, 71, 77, 65, 45, 84, 73, 77, 69, 58>>  \* 'X-ICALNIGMA-TIME:'
S_END_VCALENDAR == <<69, 78, 68, 58, 86, 67, 65, 76, 69, 78, 68, 65, 82>>  \* 'END:VCALENDAR'
S_BEGIN_VEVENT == <<66, 69, 71, 73, 78, 58, 86, 69, 86, 69, 78, 84>>  \* 'BEGIN:VEVENT'
S_END_VEVENT == <<69, 78, 68, 58, 86, 69, 86, 69, 78, 84>>  \* 'END:VEVENT'
S_UID == <<85, 73, 68>>  \* 'UID'
S_AT_ICALNIGMA == <<64, 105, 99, 97, 108, 110, 105, 103, 109, 97>>  \* '@icalnigma'
S_CREATED == <<67, 82, 69, 65, 84, 69, 68, 58>>  \* 'CREATED:'
S_DTSTART == <<68, 84, 83, 84, 65, 82, 84, 58>>  \* 'DTSTART:'
S_DTEND == <<68, 84, 69, 78, 68, 58>>  \* 'DTEND:'
S_00Z == <<48, 48, 90>>  \* '00Z'
S_SUMMARY == <<83, 85, 77, 77, 65, 82, 89, 58>>  \* 'SUMMARY:'
S_LOCATION == <<76, 79, 67, 65, 84, 73, 79, 78>>  \* 'LOCATION'
S_CATEGORIES == <<67, 65, 84, 69, 71, 79, 82, 73, 69, 83, 58>>  \* 'CATEGORIES:'
S_DESCRIPTION == <<68, 69, 83, 67, 82, 73, 80, 84, 73, 79, 78>>  \* 'DESCRIPTION'
S_SPRACHE == <<83, 112, 114, 97, 99, 104, 101, 58, 32>>  \* 'Sprache: '
S_STUNDEN == <<73, 110, 115, 103, 101, 115, 97, 109, 116, 101, 32, 83, 116, 117, 110, 100, 101, 110, 58, 32>>  \* 'Insgesamte Stunden: '
S_DOZENTEN == <<68, 111, 122, 101, 110, 116, 58, 105, 110, 110, 101, 110, 58, 32>>  \* 'Dozent:innen: '
S_DATENSCHUTZ ==  \* 'Dozent:innen sind aufgrund von Datenschutzbedenken der DHBW nicht mehr öffentlich!'
  <<68, 111, 122, 101, 110, 116, 58, 105, 110, 110, 101, 110, 32, 115, 105, 110, 100, 32, 97, 117, 102, 103, 114, 117, 110, 100, 32, 118, 111, 110, 32, 68, 97, 116, 101, 110, 115, 99, 104, 117, 116, 122, 98, 101, 100, 101, 110, 107, 101, 110, 32, 100, 101, 114, 32, 68, 72, 66, 87, 32, 110, 105, 99, 104, 116, 32, 109, 101, 104, 114, 32, 195, 182, 102, 102, 101, 110, 116, 108, 105, 99, 104, 33>>
S_ORGANIZER_CN == <<79, 82, 71, 65, 78, 73, 90, 69, 82, 59, 67, 78, 61, 34>>  \* 'ORGANIZER;CN="'
S_ATTENDEE_CN == <<65, 84, 84, 69, 78, 68, 69, 69, 59, 67, 78, 61, 34>>  \* 'ATTENDEE;CN="'
S_NOREPLY == <<34, 58, 110, 111, 114, 101, 112, 108, 121, 64, 115, 105, 112, 104, 97, 108, 111, 114, 46, 100, 101>>  \* '":noreply@siphalor.de'
S_ESC_N == <<92, 110>>  \* '\\n'
S_KIND_SEP == <<32, 45, 32>>  \* ' - '
S_JOIN == <<44, 32>>  \* ', '
S_ERSTELLT_AM == <<101, 114, 115, 116, 101, 108, 108, 116, 32, 97, 109>>  \* 'erstellt am'
S_RESSOURCEN == <<82, 101, 115, 115, 111, 117, 114, 99, 101, 110>>  \* 'Ressourcen'
S_RESERVIERT_VON == <<114, 101, 115, 101, 114, 118, 105, 101, 114, 116, 32, 118, 111, 110>>  \* 'reserviert von'
S_VERANSTALTUNGSNAME == <<86, 101, 114, 97, 110, 115, 116, 97, 108, 116, 117, 110, 103, 115, 110, 97, 109, 101>>  \* 'Veranstaltungsname'
S_TITEL == <<84, 105, 116, 101, 108>>  \* 'Titel'
S_NAME == <<78, 97, 109, 101>>  \* 'Name'
S_VERANSTALTUNGSNUMMER == <<86, 101, 114, 97, 110, 115, 116, 97, 108, 116, 117, 110, 103, 115, 110, 117, 109, 109, 101, 114>>  \* 'Veranstaltungsnummer'
S_SPRACHE_KEY == <<83, 112, 114, 97, 99, 104, 101>>  \* 'Sprache'
S_VERANSTALTUNGSART == <<86, 101, 114, 97, 110, 115, 116, 97, 108, 116, 117, 110, 103, 115, 97, 114, 116>>  \* 'Veranstaltungsart'
S_VERANSTALTUNGSKATEGORIE == <<86, 101, 114, 97, 110, 115, 116, 97, 108, 116, 117, 110, 103, 115, 107, 97, 116, 101, 103, 111, 114, 105, 101>>  \* 'Veranstaltungskategorie'
S_SOLL_STUNDEN == <<83, 111, 108, 108, 45, 83, 116, 117, 110, 100, 101, 110>>  \* 'Soll-Stunden'
S_LEHRVERANSTALTUNG == <<76, 101, 104, 114, 118, 101, 114, 97, 110, 115, 116, 97, 108, 116, 117, 110, 103>>  \* 'Lehrveranstaltung'
S_PRUEFUNG == <<80, 114, 195, 188, 102, 117, 110, 103>>  \* 'Prüfung'
S_SONSTIGER_TERMIN == <<83, 111, 110, 115, 116, 105, 103, 101, 114, 32, 84, 101, 114, 109, 105, 110>>  \* 'Sonstiger Termin'
S_UNBEKANNT == <<85, 110, 98, 101, 107, 97, 110, 110, 116>>  \* 'Unbekannt'
S_U32_MAX == <<52, 50, 57, 52, 57, 54, 55, 50, 57, 53>>  \* '4294967295'

-----------------------------------------------------------------------------
(* icalendar.rs: the folding loop *)

\* `current_line_length > 72`
LineOverflowsOffByOne(current_line_length) == current_line_length > 73
LineOverflows(current_line_length) == current_line_length > 72

\* the `for line_char in line_rest.chars()` loop.  A str is a sequence of
\* whole characters, so the length accumulated before the character whose
\* lead byte is at the 1-based position pos is pos - 1; the loop breaks at the
\* first character that makes the length overflow and takes its length back.
ScanChars(line_rest) ==
  LET breaks == {pos \in 1..Len(line_rest) :
                   /\ ~IsContinuation(line_rest[pos])
                   /\ LineOverflows(pos - 1 + Utf8Len(DecodeAt(line_rest, pos)))}
  IN IF breaks = {} THEN Len(line_rest) ELSE Min(breaks) - 1

\* the `while !line_rest.is_empty()` loop.  sink is [writes, panicked];
\* split_at panics when the index is no char boundary.
RECURSIVE FoldLoop(_, _, _)
FoldLoop(sink, line_rest, first) ==
  IF line_rest = <<>> THEN sink
  ELSE LET current_line_length == ScanChars(line_rest) IN
       IF ~IsCharBoundary(line_rest, current_line_length)
       THEN [sink EXCEPT !.panicked = TRUE]
       ELSE LET parts0 == SubSeq(line_rest, 1, current_line_length)
                parts1 == SubSeq(line_rest, current_line_length + 1, Len(line_rest))
                written == IF first THEN parts0 \o CRLF
                           ELSE SPACE \o parts0 \o CRLF
            IN FoldLoop([sink EXCEPT !.writes = Append(@, written)], parts1, FALSE)

\* write_ical_line
WriteIcalLine(sink, l) == FoldLoop(sink, l, TRUE)

\* write_ical_field
WriteIcalField(sink, key, value) ==
  WriteIcalLine(sink, key \o COLON \o EscapeCommas(value))

\* util.rs: write_ical_field, with the folding loop inlined
UtilWriteIcalField(sink, key, value) ==
  FoldLoop(sink, key \o COLON \o EscapeCommas(value), TRUE)

\* write!(write, "{}\r\n", text): one unfolded write
WriteRaw(sink, text) == [sink EXCEPT !.writes = Append(@, text \o CRLF)]

EmptySink == [writes |-> <<>>, panicked |-> FALSE]

-----------------------------------------------------------------------------
(* model.rs: Event.  A DateTime<Utc> is [year, month, day, hour, minute];   *)
(* a u32 or u64 is its decimal digit string.                                *)

\* EventData
Exam == [tag |-> "Exam"]
Other == [tag |-> "Other"]
Lecture(number, language, kind, categories, total_hours) ==
  [tag |-> "Lecture", number |-> number, language |-> language, kind |-> kind,
   categories |-> categories, total_hours |-> total_hours]

\* the decimal digits of a natural number ("{}" of an integer)
RECURSIVE DecimalDigits(_)
DecimalDigits(n) ==
  IF n < 10 THEN <<48 + n>> ELSE DecimalDigits(n \div 10) \o <<48 + (n % 10)>>

\* n zero-padded to two and to four digits (%d %m %H %M and %Y)
Pad2(n) == IF n < 10 THEN <<48>> \o DecimalDigits(n) ELSE DecimalDigits(n)
Pad4(n) == Rep(48, 4 - Len(DecimalDigits(n))) \o DecimalDigits(n)

\* DateTime::format(ICAL_DATETIME_FORMAT), "%Y%m%dT%H%M"
FormatIcalDateTime(t) ==
  Pad4(t.year) \o Pad2(t.month) \o Pad2(t.day) \o <<84>> \o Pad2(t.hour) \o Pad2(t.minute)

\* DateTime::format("%d.%m.%Y %H:%M")
FormatHeaderTime(t) ==
  Pad2(t.day) \o <<46>> \o Pad2(t.month) \o <<46>> \o Pad4(t.year) \o <<32>>
    \o Pad2(t.hour) \o <<58>> \o Pad2(t.minute)

\* slice::join
RECURSIVE Join(_, _)
Join(ss, sep) ==
  IF ss = <<>> THEN <<>>
  ELSE IF Len(ss) = 1 THEN ss[1]
  ELSE ss[1] \o sep \o Join(Tail(ss), sep)

\* days from 1970-01-01 to the first day of the year, and of the month
IsLeapYear(y) == (y % 4 = 0 /\ y % 100 # 0) \/ y % 400 = 0
DaysInMonth(y, m) ==
  IF m = 2 THEN (IF IsLeapYear(y) THEN 29 ELSE 28)
  ELSE IF m \in {4, 6, 9, 11} THEN 30 ELSE 31
RECURSIVE DaysBeforeMonth(_, _)
DaysBeforeMonth(y, m) ==
  IF m = 1 THEN 0 ELSE DaysBeforeMonth(y, m - 1) + DaysInMonth(y, m - 1)
DaysBeforeYear(y) ==
  365 * (y - 1970) + ((y - 1969) \div 4) - ((y - 1901) \div 100) + ((y - 1601) \div 400)

\* minutes from 1970-01-01 00:00 UTC to t
TimestampMinutes(t) ==
  ((DaysBeforeYear(t.year) + DaysBeforeMonth(t.year, t.month) + t.day - 1) * 24
     + t.hour) * 60 + t.minute

\* DateTime::timestamp: seconds since the epoch (the seconds of a time that
\* was parsed with "%d.%m.%y%H:%M" are 0)
Timestamp(t) == TimestampMinutes(t) * 60

\* the hasher input with the whole of begin in place of its date
EventHashWithTimeOfDay(self) ==
  [creation_time |-> IF self.creation = None THEN 0 ELSE Timestamp(self.creation[1]),
   name          |-> self.name,
   year          |-> self.begin.year,
   month         |-> self.begin.month,
   day           |-> self.begin.day * 10000 + self.begin.hour * 100 + self.begin.minute,
   creator       |-> self.creator]

\* the fields Event::hash feeds to the hasher, in order
EventHashInput(self) ==
  [creation_time |-> IF self.creation = None THEN 0 ELSE Timestamp(self.creation[1]),
   name          |-> self.name,
   year          |-> self.begin.year,
   month         |-> self.begin.month,
   day           |-> self.begin.day,
   creator       |-> self.creator]

\* DefaultHasher over the derived Hash of EventHash: SipHash-1-3 with fixed
\* keys is stood in for by a deterministic mix modulo a prime of the same fields in
\* the same order
\* [mix, weight] of s[lo..hi], halving the range
RECURSIVE MixRange(_, _, _)
MixRange(s, lo, hi) ==
  IF lo > hi THEN [mix |-> 0, weight |-> 1]
  ELSE IF lo = hi THEN [mix |-> s[lo] + 1, weight |-> 31]
  ELSE LET Combine(left, right) ==
             [mix |-> (left.mix * right.weight + right.mix) % 46337,
              weight |-> (left.weight * right.weight) % 46337]
       IN Combine(MixRange(s, lo, (lo + hi) \div 2), MixRange(s, (lo + hi) \div 2 + 1, hi))
MixBytes(acc, s) ==
  LET Mixed(range) == (acc * range.weight + range.mix) % 46337
  IN Mixed(MixRange(s, 1, Len(s)))
MixInt(acc, n) == (acc * 31 + (n % 46337) + 1) % 46337
HasherFinish(h) ==
  LET a == MixInt(7, h.creation_time)
      b == MixBytes(a, h.name)
      c == MixInt(MixInt(MixInt(b, h.year), h.month), h.day)
  IN IF h.creator = None THEN MixInt(c, 0) ELSE MixBytes(MixInt(c, 1), h.creator[1])

\* Event::hash
Hash(self) == HasherFinish(EventHashInput(self))

\* Event::title
Title(self) ==
  IF self.data.tag = "Lecture" /\ self.data.kind # None
  THEN self.name \o S_KIND_SEP \o self.data.kind[1]
  ELSE self.name

-----------------------------------------------------------------------------
(* icalendar.rs: write_lecture and write_calendar *)

\* what write_lecture appends to `description`, in order
Description(event) ==
  LET lecturePart ==
        IF event.data.tag = "Lecture"
        THEN (IF event.data.categories # <<>>
              THEN Join(event.data.categories, S_JOIN) \o S_ESC_N \o S_ESC_N
              ELSE <<>>)
             \o (IF event.data.language # None
                 THEN S_SPRACHE \o event.data.language[1] \o S_ESC_N
                 ELSE <<>>)
             \o (IF event.data.total_hours # None
                 THEN S_STUNDEN \o event.data.total_hours[1] \o S_ESC_N
                 ELSE <<>>)
        ELSE <<>>
      lecturerPart ==
        IF event.lecturers # <<>>
        THEN S_DOZENTEN
               \o Join([i \in 1..Len(event.lecturers) |-> event.lecturers[i].name], S_JOIN)
               \o S_ESC_N
        ELSE S_DATENSCHUTZ
  IN lecturePart \o lecturerPart

Raw(text) == [how |-> "raw", text |-> text]
Line(text) == [how |-> "line", text |-> text]
Field(key, value) == [how |-> "field", key |-> key, value |-> value]

\* the content lines write_lecture emits, in order, each with the way it is
\* written: "raw" by write!, "line" by write_ical_line, "field" by
\* write_ical_field
LectureItems(event) ==
  <<Raw(S_BEGIN_VEVENT),
    Field(S_UID, DecimalDigits(Hash(event)) \o S_AT_ICALNIGMA)>>
  \o (IF event.creation # None
      THEN <<Raw(S_CREATED \o FormatIcalDateTime(event.creation[1]) \o S_00Z)>>
      ELSE <<>>)
  \o <<Raw(S_DTSTART \o FormatIcalDateTime(event.begin) \o S_00Z),
       Raw(S_DTEND \o FormatIcalDateTime(event.end) \o S_00Z),
       Raw(S_SUMMARY \o Title(event))>>
  \o (IF event.locations # <<>>
      THEN <<Field(S_LOCATION, Join(event.locations, S_JOIN))>>
      ELSE <<>>)
  \o (IF event.data.tag = "Lecture" /\ event.data.categories # <<>>
      THEN <<Line(S_CATEGORIES \o Join(event.data.categories, <<44>>))>>
      ELSE <<>>)
  \o (IF event.lecturers # <<>>
      THEN <<Line(S_ORGANIZER_CN \o event.lecturers[1].name \o S_NOREPLY)>>
           \o [i \in 1..Len(event.lecturers) |->
                 Line(S_ATTENDEE_CN \o event.lecturers[i].name \o S_NOREPLY)]
      ELSE <<>>)
  \o [i \in 1..Len(event.courses) |->
        Line(S_ATTENDEE_CN \o event.courses[i] \o S_NOREPLY)]
  \o <<Field(S_DESCRIPTION, Description(event)),
       Raw(S_END_VEVENT)>>

WriteItem(sink, item) ==
  CASE item.how = "raw"   -> WriteRaw(sink, item.text)
    [] item.how = "line"  -> WriteIcalLine(sink, item.text)
    [] item.how = "field" -> WriteIcalField(sink, item.key, item.value)

RECURSIVE WriteItems(_, _)
WriteItems(sink, items) ==
  IF items = <<>> \/ sink.panicked THEN sink
  ELSE WriteItems(WriteItem(sink, Head(items)), Tail(items))

\* write_lecture
WriteLecture(sink, event) == WriteItems(sink, LectureItems(event))

RECURSIVE WriteLectures(_, _)
WriteLectures(sink, evs) ==
  IF evs = <<>> \/ sink.panicked THEN sink
  ELSE WriteLectures(WriteLecture(sink, Head(evs)), Tail(evs))

\* write_calendar; now is Utc::now()
WriteCalendar(sink, evs, now) ==
  LET header == WriteItems(sink, <<Raw(S_BEGIN_VCALENDAR), Raw(S_VERSION), Raw(S_PRODID),
                                   Raw(S_X_ICALNIGMA_TIME \o FormatHeaderTime(now))>>)
      body == WriteLectures(header, evs)
  IN IF body.panicked THEN body ELSE WriteRaw(body, S_END_VCALENDAR)

-----------------------------------------------------------------------------
(* util.rs: HandleExtensions over the parsed tree.  A node is                *)
(* [kind, name, attrs, children, contents]: kind "Element" with a tag name,  *)
(* attributes and children, or kind "Text" with its contents.                *)

Element(name, attrs, children) ==
  [kind |-> "Element", name |-> name, attrs |-> attrs, children |-> children,
   contents |-> <<>>]
Text(contents) ==
  [kind |-> "Text", name |-> "", attrs |-> <<>>, children |-> <<>>,
   contents |-> contents]
Attr(name, value) == [name |-> name, value |-> value]

\* get_nodes_by_tag_name
GetNodesByTagName(self, tag_name) ==
  LET IsTag(h) == h.kind = "Element" /\ h.name = tag_name
  IN SelectSeq(self.children, IsTag)

\* get_node_by_tag_name
GetNodeByTagName(self, tag_name) ==
  LET found == GetNodesByTagName(self, tag_name)
  IN IF found = <<>> THEN None ELSE Some(found[1])

\* get_attribute_value
GetAttributeValue(self, attribute_name) ==
  LET IsAttr(a) == a.name = attribute_name
      found == IF self.kind = "Element" THEN SelectSeq(self.attrs, IsAttr) ELSE <<>>
  IN IF found = <<>> THEN None ELSE Some(found[1].value)

\* get_content
GetContent(self) ==
  LET IsText(h) == h.kind = "Text"
      found == SelectSeq(self.children, IsText)
  IN IF found = <<>> THEN None ELSE Some(found[1].contents)

-----------------------------------------------------------------------------
(* String operations of the extractor *)

\* char::is_whitespace (the Unicode White_Space property)
IsWhitespace(cp) ==
  \/ cp \in 9..13
  \/ cp \in {32, 133, 160, 5760, 8232, 8233, 8239, 8287, 12288}
  \/ cp \in 8192..8202

\* str::trim_start
RECURSIVE TrimStart(_)
TrimStart(s) ==
  IF s # <<>> /\ IsWhitespace(DecodeAt(s, 1))
  THEN TrimStart(SubSeq(s, 1 + LeadWidth(s[1]), Len(s)))
  ELSE s

\* 1-based position of the lead byte of the last character of s
LastCharStart(s) ==
  CHOOSE p \in 1..Len(s) :
    ~IsContinuation(s[p]) /\ \A q \in (p + 1)..Len(s) : IsContinuation(s[q])

\* str::trim_end
RECURSIVE TrimEnd(_)
TrimEnd(s) ==
  IF s # <<>> /\ IsWhitespace(DecodeAt(s, LastCharStart(s)))
  THEN TrimEnd(SubSeq(s, 1, LastCharStart(s) - 1))
  ELSE s

\* str::trim
Trim(s) == TrimEnd(TrimStart(s))

\* str::strip_prefix
StripPrefix(s, prefix) ==
  IF Len(s) >= Len(prefix) /\ SubSeq(s, 1, Len(prefix)) = prefix
  THEN Some(SubSeq(s, Len(prefix) + 1, Len(s)))
  ELSE None

\* str::strip_suffix
StripSuffix(s, suffix) ==
  IF Len(s) >= Len(suffix) /\ SubSeq(s, Len(s) - Len(suffix) + 1, Len(s)) = suffix
  THEN Some(SubSeq(s, 1, Len(s) - Len(suffix)))
  ELSE None

\* str::split on a set of one-byte separators: every piece, empty ones too
RECURSIVE SplitFrom(_, _, _)
SplitFrom(s, seps, from) ==
  LET cuts == {i \in from..Len(s) : s[i] \in seps} IN
  IF cuts = {} THEN <<SubSeq(s, from, Len(s))>>
  ELSE <<SubSeq(s, from, Min(cuts) - 1)>> \o SplitFrom(s, seps, Min(cuts) + 1)
Split(s, seps) == SplitFrom(s, seps, 1)

\* GROUP_PATTERN.is_match: ^[A-Z]{3}-[A-Z0-9 ]+$
IsGroupPattern(s) ==
  /\ Len(s) >= 5
  /\ \A i \in 1..3 : s[i] \in 65..90
  /\ s[4] = 45
  /\ \A i \in 5..Len(s) : s[i] \in (65..90) \cup (48..57) \cup {32}

IsDigit(b) == b \in 48..57

\* bytes a before b in the order of str (byte-wise lexicographic)
LexLess(a, b) ==
  \/ Len(a) < Len(b) /\ SubSeq(b, 1, Len(a)) = a
  \/ \E i \in 1..Min({Len(a), Len(b)}) :
       /\ a[i] < b[i]
       /\ \A j \in 1..(i - 1) : a[j] = b[j]

\* str::parse::<u32>: an optional '+', then digits, at most u32::MAX;
\* Some(the canonical decimal digits)
ParseU32(s) ==
  LET digits == IF s # <<>> /\ s[1] = 43 THEN Tail(s) ELSE s
      nonzero == {i \in 1..Len(digits) : digits[i] # 48}
      canon == IF nonzero = {} THEN <<48>> ELSE SubSeq(digits, Min(nonzero), Len(digits))
  IN IF digits = <<>> \/ \E i \in 1..Len(digits) : ~IsDigit(digits[i]) THEN None
     ELSE IF Len(canon) > 10 \/ (Len(canon) = 10 /\ LexLess(S_U32_MAX, canon)) THEN None
     ELSE Some(canon)

-----------------------------------------------------------------------------
(* chrono: Berlin.datetime_from_str(text, "%d.%m.%y%H:%M").with_timezone(&Utc) *)

\* scan::number(s, 1, 2) on s without leading whitespace: [ok, value, rest]
ScanDigits(s) ==
  IF Len(s) >= 2 /\ IsDigit(s[1]) /\ IsDigit(s[2])
  THEN [ok |-> TRUE, value |-> (s[1] - 48) * 10 + (s[2] - 48), rest |-> SubSeq(s, 3, Len(s))]
  ELSE IF Len(s) >= 1 /\ IsDigit(s[1])
  THEN [ok |-> TRUE, value |-> s[1] - 48, rest |-> Tail(s)]
  ELSE [ok |-> FALSE, value |-> 0, rest |-> s]

\* a numeric item: leading whitespace is dropped, then one or two digits
ScanNumber2(s0) == ScanDigits(TrimStart(s0))

\* the items of "%d.%m.%y%H:%M"
FormatItems == <<"d", ".", "m", ".", "y", "H", ":", "M">>

\* one item of the format on the input s: [ok, rest, parsed]
ParseItem(item, s, parsed) ==
  LET Numeric(scan) ==
        [ok |-> scan.ok, rest |-> scan.rest,
         parsed |-> [parsed EXCEPT ![item] = scan.value]]
      Literal(b) ==
        [ok |-> s # <<>> /\ s[1] = b, rest |-> IF s = <<>> THEN s ELSE Tail(s),
         parsed |-> parsed]
  IN IF item = "." THEN Literal(46)
     ELSE IF item = ":" THEN Literal(58)
     ELSE Numeric(ScanNumber2(s))

\* format::parse over the items left; at is [ok, rest, parsed].  Some(the
\* fields read), None on the first item that does not match or when input
\* is left over
RECURSIVE ParseItems(_, _)
ParseItems(items, at) ==
  IF ~at.ok THEN None
  ELSE IF items = <<>> THEN (IF at.rest = <<>> THEN Some(at.parsed) ELSE None)
  ELSE ParseItems(Tail(items), ParseItem(Head(items), at.rest, at.parsed))

\* Parsed::to_naive_datetime: None, or Some of the local date and time
ToNaive(parsed, year) ==
  IF /\ parsed.m \in 1..12
     /\ parsed.d \in 1..DaysInMonth(year, parsed.m)
     /\ parsed.H \in 0..23
     /\ parsed.M \in 0..59
  THEN Some([year |-> year, month |-> parsed.m, day |-> parsed.d,
             hour |-> parsed.H, minute |-> parsed.M])
  ELSE None

\* NaiveDateTime::parse_from_str(text, "%d.%m.%y%H:%M"); %y below 70 is 20yy
ParseNaive(text) ==
  LET Resolve(parsed) ==
        IF parsed = None THEN None
        ELSE ToNaive(parsed[1], parsed[1].y + (IF parsed[1].y < 70 THEN 2000 ELSE 1900))
  IN Resolve(ParseItems(FormatItems,
                        [ok |-> TRUE, rest |-> text,
                         parsed |-> [d |-> 0, m |-> 0, y |-> 0, H |-> 0, M |-> 0]]))

\* the last Sunday of March and of October (years 1900..2099)
LastSundayOfMarch(y) == 31 - (((5 * y) \div 4 + 4) % 7)
LastSundayOfOctober(y) == 31 - (((5 * y) \div 4 + 1) % 7)

\* Europe/Berlin (the EU rule, in force since 1996): the UTC offset in hours
\* of a local time, 0 when the local time does not exist or is ambiguous
BerlinOffset(t) ==
  LET start == LastSundayOfMarch(t.year)
      stop == LastSundayOfOctober(t.year)
      afterStart == \/ t.month > 3
                    \/ t.month = 3 /\ t.day > start
                    \/ t.month = 3 /\ t.day = start /\ t.hour >= 3
      beforeStop == \/ t.month < 10
                    \/ t.month = 10 /\ t.day < stop
                    \/ t.month = 10 /\ t.day = stop /\ t.hour < 2
  IN IF t.month = 3 /\ t.day = start /\ t.hour = 2 THEN 0
     ELSE IF t.month = 10 /\ t.day = stop /\ t.hour = 2 THEN 0
     ELSE IF afterStart /\ beforeStop THEN 2 ELSE 1

\* t moved back by k hours, k in 1..2
HoursBefore(t, k) ==
  IF t.hour >= k THEN [t EXCEPT !.hour = @ - k]
  ELSE IF t.day > 1 THEN [t EXCEPT !.hour = @ + 24 - k, !.day = @ - 1]
  ELSE IF t.month > 1
  THEN [t EXCEPT !.hour = @ + 24 - k, !.month = @ - 1,
                 !.day = DaysInMonth(t.year, t.month - 1)]
  ELSE [t EXCEPT !.hour = @ + 24 - k, !.year = @ - 1, !.month = 12, !.day = 31]

\* Berlin.datetime_from_str(..).map(|t| t.with_timezone(&Utc)): None for Err
DatetimeFromStr(text) ==
  LET ToUtc(naive, offset) ==
        IF offset = 0 THEN None ELSE Some(HoursBefore(naive, offset))
      FromLocal(naive) ==
        IF naive = None THEN None ELSE ToUtc(naive[1], BerlinOffset(naive[1]))
  IN FromLocal(ParseNaive(text))

-----------------------------------------------------------------------------
(* main.rs: the extractor.  A Result is [tag |-> "Ok", value], [tag |->      *)
(* "Err", error] or, when the call panicked, [tag |-> "Panic"].  A           *)
(* HashMap<String, String> and the BTreeMap Months are functions.            *)

Ok(v) == [tag |-> "Ok", value |-> v]
Err(e) == [tag |-> "Err", error |-> e]
Panic == [tag |-> "Panic"]

EmptyMap == <<>>

\* HashMap::insert, BTreeMap::insert: the value of an existing key is replaced
AppendOnInsert(map, k, v) ==
  [x \in DOMAIN map \cup {k} |->
     IF x = k THEN (IF k \in DOMAIN map THEN map[k] \o v ELSE v) ELSE map[x]]
Insert(map, k, v) == [x \in DOMAIN map \cup {k} |-> IF x = k THEN v ELSE map[x]]

\* HashMap::get
Get(map, k) == IF k \in DOMAIN map THEN Some(map[k]) ELSE None

\* Option::or_else
OrElse(a, b) == IF a # None THEN a ELSE b

\* one row of the metadata table
MetadataRow(metadata, row_handle) ==
  LET cells == GetNodesByTagName(row_handle, "td")
      keyContent == GetContent(cells[1])
      key == IF keyContent = None THEN <<>>
             ELSE IF StripSuffix(keyContent[1], COLON) # None
             THEN StripSuffix(keyContent[1], COLON)[1]
             ELSE keyContent[1]
      value == GetContent(cells[2])
  IN IF Len(cells) < 2 THEN metadata
     ELSE IF value = None \/ value[1] = <<>> THEN metadata
     ELSE Insert(metadata, key, value[1])

RECURSIVE MetadataRows(_, _)
MetadataRows(metadata, rows) ==
  IF rows = <<>> THEN metadata
  ELSE MetadataRows(MetadataRow(metadata, Head(rows)), Tail(rows))

\* parse_metadata
ParseMetadata(metadata_handle) ==
  LET tbody_handle == GetNodeByTagName(metadata_handle, "tbody")
  IN IF tbody_handle = None THEN EmptyMap
     ELSE MetadataRows(EmptyMap, GetNodesByTagName(tbody_handle[1], "tr"))

\* the resource loop of process_event: [courses, locations]
ClassifyResources(resources) ==
  LET res_split == Split(resources, {44})
      NoGroup(r) == ~IsGroupPattern(r)
  IN [courses |-> SelectSeq(res_split, IsGroupPattern),
      locations |-> SelectSeq(res_split, NoGroup)]

\* the `data: match event_type_raw.as_str()` of process_event: None for the
\* `_` arm
EventDataOf(event_type_raw, metadata) ==
  CASE event_type_raw = S_LEHRVERANSTALTUNG ->
         Some(Lecture(
           IF Get(metadata, S_VERANSTALTUNGSNUMMER) = None THEN <<>>
           ELSE Get(metadata, S_VERANSTALTUNGSNUMMER)[1],
           Get(metadata, S_SPRACHE_KEY),
           Get(metadata, S_VERANSTALTUNGSART),
           IF Get(metadata, S_VERANSTALTUNGSKATEGORIE) = None THEN <<>>
           ELSE LET cats == Split(Get(metadata, S_VERANSTALTUNGSKATEGORIE)[1], {44})
                IN [i \in 1..Len(cats) |-> Trim(cats[i])],
           IF Get(metadata, S_SOLL_STUNDEN) = None THEN None
           ELSE ParseU32(Get(metadata, S_SOLL_STUNDEN)[1])))
    [] event_type_raw = S_PRUEFUNG -> Some(Exam)
    [] event_type_raw = S_SONSTIGER_TERMIN -> Some(Other)
    [] OTHER -> None

\* process_event, from `let event = Event {` on
BuildEvent(event_type_raw, metadata, creation, begin, end) ==
  LET Build(classified, name, data) ==
        IF data = None THEN Err("Failed to resolve event type")
        ELSE Ok([creation  |-> creation,
                 creator   |-> Get(metadata, S_RESERVIERT_VON),
                 begin     |-> begin,
                 end       |-> end,
                 name      |-> IF name = None THEN <<>> ELSE name[1],
                 lecturers |-> <<>>,
                 locations |-> classified.locations,
                 courses   |-> classified.courses,
                 data      |-> data[1]])
  IN Build(IF Get(metadata, S_RESSOURCEN) = None
           THEN [courses |-> <<>>, locations |-> <<>>]
           ELSE ClassifyResources(Get(metadata, S_RESSOURCEN)[1]),
           OrElse(Get(metadata, S_VERANSTALTUNGSNAME),
                  OrElse(Get(metadata, S_TITEL), Get(metadata, S_NAME))),
           EventDataOf(event_type_raw, metadata))

\* process_event, from the check of begin and end to parse_metadata
ProcessTimes(event_type_raw, metadata_handle, creation, begin, end) ==
  IF begin = None THEN Err("Failed to parse begin time of event")
  ELSE IF end = None THEN Err("Failed to parse end time of event")
  ELSE BuildEvent(event_type_raw, ParseMetadata(metadata_handle), creation, begin[1], end[1])

\* process_event, from "Parse begin and end" on; date_time_text is the
\* content of the second division
ProcessDateTime(event_type_raw, metadata_handle, date_time_text, creation) ==
  LET date_time_split ==
        IF date_time_text = None THEN <<>> ELSE Split(date_time_text[1], {32, 45})
  IN IF creation = None THEN Err("Failed to parse begin time of event")
     ELSE IF date_time_text = None THEN Err("Missing datetime in event!")
     ELSE IF Len(date_time_split) < 2 THEN Err("No date in event datetime!")
     ELSE IF Len(date_time_split) < 3 THEN Err("No begin time in event datetime!")
     ELSE IF Len(date_time_split) < 4 THEN Err("No end time in event datetime!")
     ELSE ProcessTimes(event_type_raw, metadata_handle, creation,
                       DatetimeFromStr(date_time_split[2] \o date_time_split[3]),
                       DatetimeFromStr(date_time_split[2] \o date_time_split[4]))

\* process_event, from "Parse creation/changed info" on: tooltip_divs has two
\* or more divisions
ProcessTooltip(event_type_raw, metadata_handle, tooltip_divs) ==
  LET cc_content == GetContent(tooltip_divs[1])
      cc_text == StripPrefix(TrimStart(cc_content[1]), S_ERSTELLT_AM)
  IN IF cc_content = None THEN Err("No creation/changed time found for event!")
     ELSE IF cc_text = None THEN Err("No creation prefix found for event!")
     ELSE IF Len(cc_text[1]) < 14 THEN Err("Invalid creation text on event")
     ELSE IF ~IsCharBoundary(cc_text[1], 14) THEN Panic
     ELSE ProcessDateTime(event_type_raw, metadata_handle, GetContent(tooltip_divs[2]),
                          DatetimeFromStr(SubSeq(cc_text[1], 1, 14)))

\* process_event
ProcessEvent(event_handle) ==
  LET link_handle == GetNodeByTagName(event_handle, "a")
      tooltip_handle == GetNodeByTagName(link_handle[1], "span")
      event_type_handle == GetNodeByTagName(tooltip_handle[1], "strong")
      metadata_handle == GetNodeByTagName(tooltip_handle[1], "table")
      tooltip_divs == GetNodesByTagName(tooltip_handle[1], "div")
  IN IF link_handle = None THEN Err("No containing link in event!")
     ELSE IF tooltip_handle = None THEN Err("No tooltip in event!")
     ELSE IF event_type_handle = None THEN Err("Could not identify event type!")
     ELSE IF metadata_handle = None THEN Err("No event metadata found!")
     ELSE IF Len(tooltip_divs) < 2 THEN Err("Missing metadata on event!")
     ELSE ProcessTooltip(OrElse(GetContent(event_type_handle[1]), Some(<<>>))[1],
                         metadata_handle[1], tooltip_divs)

\* one pass of the `for div in divs` loop of load_day; acc is
\* [events, log, panicked]
LoadDayStep(acc, div) ==
  LET class == GetAttributeValue(div, "class")
      Processed(processed) ==
        IF processed.tag = "Panic" THEN [acc EXCEPT !.panicked = TRUE]
        ELSE IF processed.tag = "Ok"
        THEN [acc EXCEPT !.events = Append(@, processed.value)]
        ELSE [acc EXCEPT !.log = Append(@, "Error in event")]
  IN IF class = None \/ class[1] # "month_block"
     THEN [acc EXCEPT !.log = Append(@, "Skipping potential event")]
     ELSE Processed(ProcessEvent(div))

\* the `for div in divs` loop of load_day, left when process_event panics
RECURSIVE LoadDayLoop(_, _)
LoadDayLoop(acc, divs) ==
  IF divs = <<>> \/ acc.panicked THEN acc
  ELSE LoadDayLoop(LoadDayStep(acc, Head(divs)), Tail(divs))

\* what load_day returns after its loop: [result, log]
DayResult(acc) ==
  [result |-> IF acc.panicked THEN Panic ELSE Ok(Some(acc.events)), log |-> acc.log]

\* load_day: [result, log]; result is Ok(None), Ok(Some(events)) or Panic
LoadDayEveryDiv(cell_handle) ==
  LET divs == GetNodesByTagName(cell_handle, "div")
  IN IF Len(divs) < 2 THEN [result |-> Ok(None), log |-> <<>>]
     ELSE DayResult(LoadDayLoop([events |-> <<>>, log |-> <<>>, panicked |-> FALSE], divs))
LoadDay(cell_handle) ==
  LET divs == GetNodesByTagName(cell_handle, "div")
  IN IF Len(divs) < 2 THEN [result |-> Ok(None), log |-> <<>>]
     ELSE DayResult(LoadDayLoop([events |-> <<>>, log |-> <<>>, panicked |-> FALSE],
                                Tail(divs)))

\* one pass of the cell loop of load_month; acc is [events, log, panicked]
LoadCell(acc, cell_handle) ==
  LET class == GetAttributeValue(cell_handle, "class")
      Day(day) ==
        IF day.result.tag = "Panic"
        THEN [acc EXCEPT !.log = @ \o day.log, !.panicked = TRUE]
        ELSE IF day.result.tag = "Err"
        THEN [acc EXCEPT !.log = @ \o day.log \o <<"Error in day">>]
        ELSE IF day.result.value = None
        THEN [acc EXCEPT !.log = @ \o day.log]
        ELSE [acc EXCEPT !.log = @ \o day.log, !.events = @ \o day.result.value[1]]
  IN IF class = None \/ class[1] # "month_cell" THEN acc
     ELSE Day(LoadDay(cell_handle))

\* the cell loop of load_month over the cells of all rows, in order
RECURSIVE LoadCells(_, _)
LoadCells(acc, cells) ==
  IF cells = <<>> \/ acc.panicked THEN acc
  ELSE LoadCells(LoadCell(acc, Head(cells)), Tail(cells))

\* DateTime::format("%Y%m")
FormatPeriod(t) == Pad4(t.year) \o Pad2(t.month)

\* load_month: [result, log]; result is Ok(None), Ok(Some(<<month, events>>))
\* or Panic
LoadMonth(month_handle) ==
  LET table_handle == GetNodeByTagName(month_handle, "table")
      tbody_handle == IF table_handle = None THEN None
                      ELSE GetNodeByTagName(table_handle[1], "tbody")
      rows == IF tbody_handle = None THEN <<>>
              ELSE GetNodesByTagName(tbody_handle[1], "tr")
      Month(acc) ==
        [result |-> IF acc.panicked THEN Panic
                    ELSE IF acc.events = <<>> THEN Ok(None)
                    ELSE Ok(Some(<<FormatPeriod(acc.events[1].end), acc.events>>)),
         log |-> acc.log]
  IN Month(LoadCells([events |-> <<>>, log |-> <<>>, panicked |-> FALSE],
                     Flatten([i \in 1..Len(rows) |-> GetNodesByTagName(rows[i], "td")])))

\* one pass of the `for handle in body.get_nodes_by_tag_name("div")` loop of
\* load_events; acc is [months, log, result]
LoadCalendar(acc, handle_) ==
  LET val == GetAttributeValue(handle_, "class")
      Month(month) ==
        IF month.result.tag # "Ok"
        THEN [acc EXCEPT !.log = @ \o month.log, !.result = month.result]
        ELSE IF month.result.value = None
        THEN [acc EXCEPT !.log = @ \o month.log]
        ELSE [acc EXCEPT !.log = @ \o month.log,
                         !.months = Insert(@, month.result.value[1][1],
                                           month.result.value[1][2])]
  IN IF val = None \/ val[1] # "calendar" THEN acc
     ELSE Month(LoadMonth(handle_))

\* the loop of load_events, left on `?` or a panic
RECURSIVE LoadCalendars(_, _)
LoadCalendars(acc, handles) ==
  IF handles = <<>> \/ acc.result.tag # "Ok" THEN acc
  ELSE LoadCalendars(LoadCalendar(acc, Head(handles)), Tail(handles))

\* load_events on the parsed document (None when read_from failed):
\* [result, log]; result is Ok(months), Err or Panic
LoadEvents(dom) ==
  LET html == GetNodeByTagName(dom[1], "html")
      body == GetNodeByTagName(html[1], "body")
      Loaded(acc) ==
        [result |-> IF acc.result.tag = "Ok" THEN Ok(acc.months) ELSE acc.result,
         log |-> acc.log]
  IN IF dom = None THEN [result |-> Panic, log |-> <<"Failed to parse input!">>]
     ELSE IF html = None
     THEN [result |-> Panic, log |-> <<"Document does not have an html tag!">>]
     ELSE IF body = None
     THEN [result |-> Panic, log |-> <<"Document does not have a body tag!">>]
     ELSE Loaded(LoadCalendars(
                   [months |-> EmptyMap, log |-> <<>>, result |-> Ok(EmptyMap)],
                   GetNodesByTagName(body[1], "div")))

\* the keys of a BTreeMap<String, _> in its order
RECURSIVE SortedKeys(_)
SortedKeys(S) ==
  IF S = {} THEN <<>>
  ELSE LET first == CHOOSE k \in S : \A j \in S \ {k} : LexLess(k, j)
       IN <<first>> \o SortedKeys(S \ {first})

\* BTreeMap::extend(other): every entry of other is inserted
RECURSIVE ExtendWith(_, _, _)
ExtendWith(self, other, keys) ==
  IF keys = <<>> THEN self
  ELSE ExtendWith(Insert(self, Head(keys), other[Head(keys)]), other, Tail(keys))
Extend(self, other) == ExtendWith(self, other, SortedKeys(DOMAIN other))

\* months.into_values().flatten().collect()
IntoValuesFlatten(map) ==
  LET keys == SortedKeys(DOMAIN map)
  IN Flatten([i \in 1..Len(keys) |-> map[keys[i]]])

-----------------------------------------------------------------------------
(* Values the variables a specification does not use are held at *)

NoHandle == [kind |-> "None"]
NoResult == [tag |-> "None"]
NoMonths == <<>>
NoFile == [exists |-> FALSE, content |-> <<>>]

-----------------------------------------------------------------------------
(* SpecFold: write_ical_line and write_ical_field on one logical line *)

\* 'x'  ','  'ö' (2 bytes)  '€' (3 bytes)  U+1F600 (4 bytes)
FoldChars == {120, 44, 246, 8364, 128512}

PadLengths == (0..MaxPad) \cup ((72 - MaxPad)..(72 + MaxPad))

\* k ASCII letters followed by m copies of one character
FoldInputs ==
  { Rep(97, k) \o Flatten([i \in 1..m |-> EncodeUtf8(c)]) :
      k \in PadLengths, c \in FoldChars, m \in 0..MaxRun }

FieldKeys == {S_UID, S_LOCATION, S_DESCRIPTION}

InitFold ==
  /\ pc = "fold"
  /\ line \in FoldInputs
  /\ events = <<>>
  /\ output = <<>>
  /\ panicked = FALSE
  /\ handle = NoHandle
  /\ result = NoResult
  /\ stderr = <<>>
  /\ months = NoMonths
  /\ archive = None
  /\ outputFile = NoFile

\* write_ical_line(output, line)
WriteIcalLineAct ==
  /\ pc = "fold"
  /\ LET sink == WriteIcalLine(EmptySink, line) IN
       /\ output' = sink.writes
       /\ panicked' = sink.panicked
  /\ pc' = "folded"
  /\ UNCHANGED <<line, events, handle, result, stderr, months, archive, outputFile>>

\* write_ical_field(output, key, value) with value = line; afterwards `line`
\* is the function's local `line`, format!("{}:{}", key, value)
WriteIcalFieldAct ==
  /\ pc = "fold"
  /\ \E key \in FieldKeys :
       LET sink == WriteIcalField(EmptySink, key, line) IN
         /\ output' = sink.writes
         /\ panicked' = sink.panicked
         /\ line' = key \o COLON \o EscapeCommas(line)
  /\ pc' = "folded"
  /\ UNCHANGED <<events, handle, result, stderr, months, archive, outputFile>>

\* util::write_ical_field(output, key, value) with value = line
UtilWriteIcalFieldAct ==
  /\ pc = "fold"
  /\ \E key \in FieldKeys :
       LET sink == UtilWriteIcalField(EmptySink, key, line) IN
         /\ output' = sink.writes
         /\ panicked' = sink.panicked
         /\ line' = key \o COLON \o EscapeCommas(line)
  /\ pc' = "folded"
  /\ UNCHANGED <<events, handle, result, stderr, months, archive, outputFile>>

NextFold == WriteIcalLineAct \/ WriteIcalFieldAct \/ UtilWriteIcalFieldAct

SpecFold == InitFold /\ [][NextFold]_vars

\* the content of the i-th physical line: the write without its
\* continuation prefix (none on the first line) and without its CRLF
PhysContent(writes, i) ==
  SubSeq(writes[i], IF i = 1 THEN 1 ELSE 2, Len(writes[i]) - 2)

\* s is a sequence of whole UTF-8 encoded characters
WholeChars(s) ==
  /\ s # <<>> => ~IsContinuation(s[1])
  /\ \A pos \in 1..Len(s) :
       ~IsContinuation(s[pos]) =>
         LET next == pos + LeadWidth(s[pos]) IN
           /\ next - 1 <= Len(s)
           /\ \A j \in (pos + 1)..(next - 1) : IsContinuation(s[j])
           /\ next <= Len(s) => ~IsContinuation(s[next])

\* C1: the writes of write_ical_line are physical lines of at most 72 bytes
\* of content each, cut on character boundaries; the first has no prefix,
\* every later one is prefixed with one space, each ends with CRLF, and the
\* contents concatenated in order are the logical line.
C1_FoldedLine ==
  pc = "folded" =>
    /\ ~panicked
    /\ \A i \in 1..Len(output) :
         LET w == output[i] IN
           /\ Len(w) >= (IF i = 1 THEN 2 ELSE 3)
           /\ i > 1 => w[1] = 32
           /\ SubSeq(w, Len(w) - 1, Len(w)) = CRLF
           /\ Len(PhysContent(output, i)) <= 72
           /\ WholeChars(PhysContent(output, i))
    /\ Flatten([i \in 1..Len(output) |-> PhysContent(output, i)]) = line

\* a line folded into three or more physical lines where a multi-byte
\* character did not fit and the cut fell before byte 72
C1_Witness ==
  /\ pc = "folded"
  /\ Len(output) >= 3
  /\ \E i \in 1..(Len(output) - 1) : Len(PhysContent(output, i)) < 72


-----------------------------------------------------------------------------
(* SpecLecture: write_lecture on one Event, write_calendar on a Vec<Event> *)

\* length of the long texts among the inputs
LongLen == 80
\* longest Vec<Event> handed to write_calendar
MaxEvents == 2

T_MATHE == <<77, 97, 116, 104, 101>>             \* "Mathe"
T_COMMA == <<65, 44, 66>>                        \* "A,B"
T_BACKSLASH_COMMA == <<97, 92, 44, 98>>          \* "a\,b"
T_CRLF_SPACE == <<120, 13, 10, 32, 121>>         \* "x\r\n y"
T_LONG == Rep(120, LongLen)                      \* "xxx...x"
T_UMLAUTS == Flatten(Rep(<<195, 182>>, LongLen \div 2 + 1)) \* "ööö...ö"
T_VORLESUNG == <<86, 111, 114, 108, 101, 115, 117, 110, 103>> \* "Vorlesung"
T_DEUTSCH == <<68, 101, 117, 116, 115, 99, 104>> \* "Deutsch"
T_48 == <<52, 56>>                               \* "48"
T_DOE == <<68, 111, 101>>                        \* "Doe"
T_H1 == <<72, 49>>                               \* "H1"
T_INF == <<73, 78, 70, 45, 50, 51, 65>>          \* "INF-23A"

Time0 == [year |-> 2023, month |-> 12, day |-> 24, hour |-> 17, minute |-> 5]
Time1 == [year |-> 2024, month |-> 1, day |-> 15, hour |-> 8, minute |-> 0]
Time2 == [year |-> 2024, month |-> 1, day |-> 15, hour |-> 9, minute |-> 30]

BaseEvent ==
  [creation |-> Some(Time0), creator |-> Some(T_DOE), begin |-> Time1, end |-> Time2,
   name |-> T_MATHE, lecturers |-> <<>>, locations |-> <<>>, courses |-> <<>>,
   data |-> Exam]

Names == {T_MATHE, T_COMMA, T_BACKSLASH_COMMA, T_CRLF_SPACE, T_LONG, T_UMLAUTS}
Datas ==
  {Exam, Other,
   Lecture(None, None, None, <<>>, None),
   Lecture(None, Some(T_DEUTSCH), Some(T_VORLESUNG), <<T_MATHE, T_H1>>, Some(T_48))}
Lists == {<<>>, <<T_COMMA, T_H1>>, <<T_LONG>>}

EventSet ==
  {[BaseEvent EXCEPT !.name = n, !.data = d] : n \in Names, d \in Datas}
  \cup {[BaseEvent EXCEPT !.locations = l,
                          !.lecturers = [i \in 1..Len(le) |-> [name |-> le[i]]],
                          !.courses = c,
                          !.creation = cr] :
          l \in Lists, le \in Lists, c \in {<<>>, <<T_INF, T_COMMA>>},
          cr \in {None, Some(Time0)}}

InitLecture ==
  /\ pc = "serialize"
  /\ events \in UNION {[1..n -> EventSet] : n \in 0..MaxEvents}
  /\ line = <<>>
  /\ output = <<>>
  /\ panicked = FALSE
  /\ handle = NoHandle
  /\ result = NoResult
  /\ stderr = <<>>
  /\ months = NoMonths
  /\ archive = None
  /\ outputFile = NoFile

\* write_lecture(write, &events[0])
WriteLectureAct ==
  /\ pc = "serialize"
  /\ Len(events) = 1
  /\ LET sink == WriteLecture(EmptySink, events[1]) IN
       /\ output' = sink.writes
       /\ panicked' = sink.panicked
  /\ pc' = "lecture_written"
  /\ UNCHANGED <<line, events, handle, result, stderr, months, archive, outputFile>>

\* write_calendar(write, &events)
WriteCalendarAct ==
  /\ pc = "serialize"
  /\ LET Written(sink) ==
           /\ output' = sink.writes
           /\ panicked' = sink.panicked
     IN \E now \in {Time0, Time2} : Written(WriteCalendar(EmptySink, events, now))
  /\ pc' = "calendar_written"
  /\ UNCHANGED <<line, events, handle, result, stderr, months, archive, outputFile>>

NextLecture == WriteLectureAct \/ WriteCalendarAct

SpecLecture == InitLecture /\ [][NextLecture]_vars

\* the bytes of the produced document
Document == Flatten(output)

\* the lines of a byte string, each ended by CRLF (a rest without CRLF is a
\* last line)
RECURSIVE SplitLinesFrom(_, _)
SplitLinesFrom(s, from) ==
  LET ends == {i \in from..(Len(s) - 1) : s[i] = 13 /\ s[i + 1] = 10} IN
  IF from > Len(s) THEN <<>>
  ELSE IF ends = {} THEN <<SubSeq(s, from, Len(s))>>
  ELSE <<SubSeq(s, from, Min(ends) - 1)>> \o SplitLinesFrom(s, Min(ends) + 2)
SplitLines(s) == SplitLinesFrom(s, 1)

\* line unfolding: every CRLF that is followed by one space is removed with
\* that space
Unfold(s) ==
  LET folds == {i \in 1..(Len(s) - 2) : s[i] = 13 /\ s[i + 1] = 10 /\ s[i + 2] = 32}
  IN Without(s, folds \cup {i + 1 : i \in folds} \cup {i + 2 : i \in folds})

\* undoing the comma escape: `\,` back to `,`
UnescapeCommas(s) ==
  Without(s, {i \in 1..(Len(s) - 1) : s[i] = 92 /\ s[i + 1] = 44})

\* the name of a content line: what precedes its first ':' or ';'
KeyOf(l) ==
  LET seps == {i \in 1..Len(l) : l[i] \in {58, 59}}
  IN IF seps = {} THEN l ELSE SubSeq(l, 1, Min(seps) - 1)

\* C2: no physical line of the calendar document has more than 72 bytes of
\* content (the line without its CRLF and without the one-space prefix of a
\* continuation line).
C2_NoLongPhysicalLine ==
  pc = "calendar_written" =>
    \A l \in Range(SplitLines(Document)) :
      Len(l) - (IF l # <<>> /\ l[1] = 32 THEN 1 ELSE 0) <= 72

EscapedKeys ==
  {S_UID, SubSeq(S_SUMMARY, 1, 7), S_LOCATION, S_DESCRIPTION,
   SubSeq(S_ORGANIZER_CN, 1, 9), SubSeq(S_ATTENDEE_CN, 1, 8)}

\* C3: in an event block, every comma of the UID, SUMMARY, LOCATION,
\* DESCRIPTION, ORGANIZER and ATTENDEE lines is escaped as `\,`.
C3_CommasEscaped ==
  pc = "lecture_written" =>
    \A l \in Range(SplitLines(Unfold(Document))) :
      KeyOf(l) \in EscapedKeys =>
        \A i \in 1..Len(l) : l[i] = 44 => (i > 1 /\ l[i - 1] = 92)

\* the text of a content line before escaping: `key:value`, or the line
PreEscapeText(item) ==
  IF item.how = "field" THEN item.key \o COLON \o item.value ELSE item.text

\* C4: unfolding the emitted lines and undoing the comma escape recovers the
\* pre-escape text of every content line written for the event, in order.
C4_RoundTrip ==
  pc = "lecture_written" =>
    LET lines == SplitLines(Unfold(Document))
        items == LectureItems(events[1])
    IN [i \in 1..Len(lines) |-> UnescapeCommas(lines[i])]
         = [i \in 1..Len(items) |-> PreEscapeText(items[i])]

-----------------------------------------------------------------------------
(* Input documents: the trees html5ever builds for Rapla pages *)

\* longest comma-separated resource list among the inputs
MaxTokens == 2
\* most child divisions of a day cell in SpecDay
MaxDivs == 3
\* calendars per document, day cells per calendar and event blocks per day
\* cell in Spec
MaxMonths == 2
MaxDays == 2
MaxBlocks == 2
\* longest event list of a period in SpecMerge
MaxList == 2

T_CC_GOOD ==  \* 'erstellt am 24.12.23 17:05'
  <<101, 114, 115, 116, 101, 108, 108, 116, 32, 97, 109, 32, 50, 52, 46, 49, 50, 46, 50, 51, 32, 49, 55, 58, 48, 53>>
T_CC_INDENTED ==  \* '\n  erstellt am 24.12.23 17:05'
  <<10, 32, 32, 101, 114, 115, 116, 101, 108, 108, 116, 32, 97, 109, 32, 50, 52, 46, 49, 50, 46, 50, 51, 32, 49, 55, 58, 48, 53>>
T_CC_NO_PREFIX ==  \* 'geändert am 24.12.23 17:05'
  <<103, 101, 195, 164, 110, 100, 101, 114, 116, 32, 97, 109, 32, 50, 52, 46, 49, 50, 46, 50, 51, 32, 49, 55, 58, 48, 53>>
T_CC_SHORT ==  \* 'erstellt am 24.12.'
  <<101, 114, 115, 116, 101, 108, 108, 116, 32, 97, 109, 32, 50, 52, 46, 49, 50, 46>>
T_CC_UNPARSEABLE ==  \* 'erstellt am vierundzwanzigsten'
  <<101, 114, 115, 116, 101, 108, 108, 116, 32, 97, 109, 32, 118, 105, 101, 114, 117, 110, 100, 122, 119, 97, 110, 122, 105, 103, 115, 116, 101, 110>>
T_CC_SPLIT_CHAR ==  \* 'erstellt am 24.12.2023 für Kurs'
  <<101, 114, 115, 116, 101, 108, 108, 116, 32, 97, 109, 32, 50, 52, 46, 49, 50, 46, 50, 48, 50, 51, 32, 102, 195, 188, 114, 32, 75, 117, 114, 115>>
T_DT_GOOD ==  \* 'Mo 15.01.24 08:00-09:30'
  <<77, 111, 32, 49, 53, 46, 48, 49, 46, 50, 52, 32, 48, 56, 58, 48, 48, 45, 48, 57, 58, 51, 48>>
T_DT_REVERSED ==  \* 'Mo 15.01.24 09:30-08:00'
  <<77, 111, 32, 49, 53, 46, 48, 49, 46, 50, 52, 32, 48, 57, 58, 51, 48, 45, 48, 56, 58, 48, 48>>
T_DT_BAD_BEGIN ==  \* 'Mo 15.01.24 8 Uhr-09:30'
  <<77, 111, 32, 49, 53, 46, 48, 49, 46, 50, 52, 32, 56, 32, 85, 104, 114, 45, 48, 57, 58, 51, 48>>
T_DT_BAD_END ==  \* 'Mo 15.01.24 08:00-25:30'
  <<77, 111, 32, 49, 53, 46, 48, 49, 46, 50, 52, 32, 48, 56, 58, 48, 48, 45, 50, 53, 58, 51, 48>>
T_DT_NO_END ==  \* 'Mo 15.01.24 08:00'
  <<77, 111, 32, 49, 53, 46, 48, 49, 46, 50, 52, 32, 48, 56, 58, 48, 48>>
T_DT_DST_GAP ==  \* 'So 31.03.24 02:30-04:00'
  <<83, 111, 32, 51, 49, 46, 48, 51, 46, 50, 52, 32, 48, 50, 58, 51, 48, 45, 48, 52, 58, 48, 48>>
T_HOERSAAL ==  \* 'Hörsaal 1'
  <<72, 195, 182, 114, 115, 97, 97, 108, 32, 49>>
T_INF_B ==  \* 'INF-23B'
  <<73, 78, 70, 45, 50, 51, 66>>
T_LOWER ==  \* 'inf-23a'
  <<105, 110, 102, 45, 50, 51, 97>>
T_DAY_NUMBER ==  \* '15'
  <<49, 53>>
T_AB ==  \* 'A, B'
  <<65, 44, 32, 66>>
T_LINK_TEXT ==  \* '08:00 - 09:30'
  <<48, 56, 58, 48, 48, 32, 45, 32, 48, 57, 58, 51, 48>>

Row(key, value) ==
  Element("tr", <<>>, <<Element("td", <<>>, <<Text(key \o COLON)>>),
                        Element("td", <<>>, <<Text(value)>>)>>)

Table(rows) == Element("table", <<>>, <<Element("tbody", <<>>, rows)>>)

\* the metadata rows of an event named name with the resource list resources
\* (None: no "Ressourcen" row)
MetadataOf(name, resources) ==
  <<Row(S_VERANSTALTUNGSNAME, name), Row(S_RESERVIERT_VON, T_DOE)>>
  \o (IF resources = None THEN <<>> ELSE <<Row(S_RESSOURCEN, resources[1])>>)
  \o <<Row(S_SPRACHE_KEY, T_DEUTSCH), Row(S_VERANSTALTUNGSART, T_VORLESUNG),
       Row(S_VERANSTALTUNGSKATEGORIE, T_AB), Row(S_SOLL_STUNDEN, T_48)>>

\* an event block: <div class="month_block"><a>text<span>tooltip</span></a></div>
Block(tooltipChildren) ==
  Element("div", <<Attr("class", "month_block")>>,
    <<Element("a", <<Attr("href", "#")>>,
        <<Text(T_LINK_TEXT),
          Element("span", <<Attr("class", "tooltip")>>, tooltipChildren)>>)>>)

\* the tooltip of a well-shaped event block
Tooltip(label, cc, dt, name, resources) ==
  <<Element("strong", <<>>, <<Text(label)>>),
    Element("div", <<>>, <<Text(cc)>>),
    Element("div", <<>>, <<Text(dt)>>),
    Table(MetadataOf(name, resources))>>

EventBlock(label, cc, dt, name, resources) ==
  Block(Tooltip(label, cc, dt, name, resources))

Labels == {S_LEHRVERANSTALTUNG, S_PRUEFUNG, S_SONSTIGER_TERMIN, S_UNBEKANNT}
CcTexts ==
  {T_CC_GOOD, T_CC_INDENTED, T_CC_NO_PREFIX, T_CC_SHORT, T_CC_UNPARSEABLE, T_CC_SPLIT_CHAR}
DtTexts ==
  {T_DT_GOOD, T_DT_REVERSED, T_DT_BAD_BEGIN, T_DT_BAD_END, T_DT_NO_END, T_DT_DST_GAP}

\* event blocks that lack a required node
BrokenBlocks ==
  LET good == Tooltip(S_PRUEFUNG, T_CC_GOOD, T_DT_GOOD, T_MATHE, Some(T_INF)) IN
  { Element("div", <<Attr("class", "month_block")>>, <<Text(T_LINK_TEXT)>>),
    Element("div", <<Attr("class", "month_block")>>,
      <<Element("a", <<>>, <<Text(T_LINK_TEXT)>>)>>),
    Block(Tail(good)),
    Block(SubSeq(good, 1, 3)),
    Block(<<good[1], good[2], good[4]>>),
    Block(<<good[1], Element("div", <<>>, <<>>), good[3], good[4]>>),
    Block(<<good[1], good[2], Element("div", <<>>, <<>>), good[4]>>),
    Block(<<Element("strong", <<>>, <<>>), good[2], good[3], good[4]>>) }

ResourceTokens == {T_INF, T_INF_B, T_HOERSAAL, T_LOWER}
ResourceLists ==
  { Join(ts, sep) : ts \in UNION {[1..n -> ResourceTokens] : n \in 1..MaxTokens},
                    sep \in {<<44>>, S_JOIN} }

EventBlocks ==
  {EventBlock(label, T_CC_GOOD, T_DT_GOOD, T_MATHE, Some(r)) :
      label \in {S_LEHRVERANSTALTUNG, S_PRUEFUNG}, r \in ResourceLists}
  \cup {EventBlock(label, cc, dt, T_MATHE, resources) :
          label \in Labels, cc \in CcTexts, dt \in DtTexts,
          resources \in {None, Some(T_INF)}}
  \cup BrokenBlocks

-----------------------------------------------------------------------------
(* SpecEvent: process_event on one event block *)

InitEvent ==
  /\ pc = "event"
  /\ handle \in EventBlocks
  /\ line = <<>>
  /\ events = <<>>
  /\ output = <<>>
  /\ panicked = FALSE
  /\ result = NoResult
  /\ stderr = <<>>
  /\ months = NoMonths
  /\ archive = None
  /\ outputFile = NoFile

\* process_event(handle)
ProcessEventAct ==
  /\ pc = "event"
  /\ result' = ProcessEvent(handle)
  /\ panicked' = (result'.tag = "Panic")
  /\ pc' = "event_processed"
  /\ UNCHANGED <<line, events, output, handle, stderr, months, archive, outputFile>>

NextEvent == ProcessEventAct

SpecEvent == InitEvent /\ [][NextEvent]_vars

\* the value of the "Ressourcen" row of an event block, None without one
ResourcesOf(event_handle) ==
  LET link == GetNodeByTagName(event_handle, "a")
      tooltip == IF link = None THEN None ELSE GetNodeByTagName(link[1], "span")
      table == IF tooltip = None THEN None ELSE GetNodeByTagName(tooltip[1], "table")
  IN IF table = None THEN None ELSE Get(ParseMetadata(table[1]), S_RESSOURCEN)

\* the classification the claim describes: every comma-separated token is
\* trimmed, matched trimmed and stored trimmed
ClassifyTrimmed(resources) ==
  LET res_split == Split(resources, {44})
      trimmed == [i \in 1..Len(res_split) |-> Trim(res_split[i])]
      NoGroup(r) == ~IsGroupPattern(r)
  IN [courses |-> SelectSeq(trimmed, IsGroupPattern),
      locations |-> SelectSeq(trimmed, NoGroup)]

\* C6: the courses of an extracted Event are the trimmed resource tokens that
\* match ^[A-Z]{3}-[A-Z0-9 ]+$ and its locations the other trimmed tokens.
C6_TrimmedClassification ==
  (pc = "event_processed" /\ result.tag = "Ok" /\ ResourcesOf(handle) # None) =>
    /\ result.value.courses = ClassifyTrimmed(ResourcesOf(handle)[1]).courses
    /\ result.value.locations = ClassifyTrimmed(ResourcesOf(handle)[1]).locations

\* the datetime-range text of an event block: the content of the second
\* division of its tooltip, None without one
DateTimeTextOf(event_handle) ==
  LET link == GetNodeByTagName(event_handle, "a")
      tooltip == IF link = None THEN None ELSE GetNodeByTagName(link[1], "span")
      divs == IF tooltip = None THEN <<>> ELSE GetNodesByTagName(tooltip[1], "div")
  IN IF Len(divs) < 2 THEN None ELSE GetContent(divs[2])

\* C12: every Event process_event returns has begin <= end, also for a
\* datetime-range text whose end time of day is earlier than its begin time
\* of day.
C12_BeginNotAfterEnd ==
  (pc = "event_processed" /\ result.tag = "Ok") =>
    TimestampMinutes(result.value.begin) <= TimestampMinutes(result.value.end)

\* the same statement for the range texts whose end time of day is not
\* earlier than the begin time of day
C12_OrderedTextKeepsOrder ==
  DateTimeTextOf(handle) # Some(T_DT_REVERSED) => C12_BeginNotAfterEnd

-----------------------------------------------------------------------------
(* SpecDay: load_day on one day cell *)

DayNumberDiv == Element("div", <<>>, <<Text(T_DAY_NUMBER)>>)
OtherDiv == Element("div", <<Attr("class", "month_other")>>, <<Text(T_MATHE)>>)
GoodBlockA == EventBlock(S_PRUEFUNG, T_CC_GOOD, T_DT_GOOD, T_MATHE, Some(T_INF))
GoodBlockB == EventBlock(S_LEHRVERANSTALTUNG, T_CC_GOOD, T_DT_GOOD, T_DEUTSCH, None)
UnknownBlock == EventBlock(S_UNBEKANNT, T_CC_GOOD, T_DT_GOOD, T_MATHE, None)
SplitCharBlock == EventBlock(S_PRUEFUNG, T_CC_SPLIT_CHAR, T_DT_GOOD, T_MATHE, None)

DayDivs == {DayNumberDiv, OtherDiv, GoodBlockA, GoodBlockB, UnknownBlock, SplitCharBlock}

DayCells ==
  { Element("td", <<Attr("class", "month_cell")>>, divs) :
      divs \in UNION {[1..n -> DayDivs] : n \in 0..MaxDivs} }

InitDay ==
  /\ pc = "day"
  /\ handle \in DayCells
  /\ line = <<>>
  /\ events = <<>>
  /\ output = <<>>
  /\ panicked = FALSE
  /\ result = NoResult
  /\ stderr = <<>>
  /\ months = NoMonths
  /\ archive = None
  /\ outputFile = NoFile

\* load_day(handle)
LoadDayAct ==
  /\ pc = "day"
  /\ LET Loaded(day) ==
           /\ result' = day.result
           /\ stderr' = day.log
           /\ panicked' = (day.result.tag = "Panic")
     IN Loaded(LoadDay(handle))
  /\ pc' = "day_loaded"
  /\ UNCHANGED <<line, events, output, handle, months, archive, outputFile>>

NextDay == LoadDayAct

SpecDay == InitDay /\ [][NextDay]_vars

\* a division marked as an event block
IsMarked(div) == GetAttributeValue(div, "class") = Some("month_block")

\* C7: a day cell without any division marked as an event block yields None.
C7_NoMarkedDivisionYieldsNone ==
  (pc = "day_loaded" /\ \A div \in Range(GetNodesByTagName(handle, "div")) : ~IsMarked(div))
    => result = Ok(None)

\* the two child divisions of the cell are an unmarked one and a marked
\* well-formed event block, in this order
UnmarkedThenMarked(cell) ==
  LET divs == GetNodesByTagName(cell, "div") IN
  /\ Len(divs) = 2
  /\ ~IsMarked(divs[1])
  /\ IsMarked(divs[2]) /\ ProcessEvent(divs[2]).tag = "Ok"
MarkedThenUnmarked(cell) ==
  LET divs == GetNodesByTagName(cell, "div") IN
  /\ Len(divs) = 2
  /\ IsMarked(divs[1]) /\ ProcessEvent(divs[1]).tag = "Ok"
  /\ ~IsMarked(divs[2])

\* C8 as stated: one unmarked and one marked well-formed division, in either
\* order, yield exactly one Event, and never an error.
C8_OneEventInEitherOrder ==
  (pc = "day_loaded" /\ (UnmarkedThenMarked(handle) \/ MarkedThenUnmarked(handle))) =>
    /\ result.tag = "Ok"
    /\ result.value # None
    /\ Len(result.value[1]) = 1

\* the number of elements of seq that satisfy Test
Count(seq, Test(_)) == Len(SelectSeq(seq, Test))

\* C8 amended: the first division is skipped unexamined as the day-number
\* division.  An unmarked division followed by a marked well-formed one
\* yields exactly that one Event and no warning; a marked one followed by an
\* unmarked one yields the empty list and one warning.  Every unmarked
\* division after the first is skipped with one warning each, and load_day
\* never returns an error.
C8_OneEventAfterDayNumber ==
  pc = "day_loaded" =>
    LET divs == GetNodesByTagName(handle, "div")
        Unmarked(div) == ~IsMarked(div)
        IsSkip(msg) == msg = "Skipping potential event"
    IN /\ result.tag # "Err"
       /\ UnmarkedThenMarked(handle) =>
            /\ result = Ok(Some(<<ProcessEvent(divs[2]).value>>))
            /\ stderr = <<>>
       /\ MarkedThenUnmarked(handle) =>
            /\ result = Ok(Some(<<>>))
            /\ stderr = <<"Skipping potential event">>
       /\ (result.tag = "Ok" /\ divs # <<>>) =>
            Count(stderr, IsSkip) =
              IF Len(divs) < 2 THEN 0 ELSE Count(Tail(divs), Unmarked)

\* the day-number division followed by one event block yielded one Event
C8_Witness ==
  /\ pc = "day_loaded"
  /\ UnmarkedThenMarked(handle)
  /\ result.tag = "Ok"
  /\ Len(result.value[1]) = 1

-----------------------------------------------------------------------------
(* SpecMerge: the archive block of main, from the state after load_events *)

Period1 == [year |-> 2024, month |-> 1]
Period2 == [year |-> 2024, month |-> 2]
Periods == {Period1, Period2}
PeriodKey(p) == Pad4(p.year) \o Pad2(p.month)

\* the i-th event of a period
PeriodEvent(p, i) ==
  [BaseEvent EXCEPT !.name = <<69, 48 + i>>,
                    !.begin = [Time1 EXCEPT !.year = p.year, !.month = p.month],
                    !.end = [Time2 EXCEPT !.year = p.year, !.month = p.month]]

\* the event lists of a period with minLen..MaxList events
ListsOf(p, minLen) ==
  UNION {[1..n -> {PeriodEvent(p, 1), PeriodEvent(p, 2)}] : n \in minLen..MaxList}

\* the Months values over the periods whose lists hold minLen or more events
MonthsOver(minLen) ==
  UNION { { [k \in {PeriodKey(p) : p \in D} |->
               f[CHOOSE p \in D : PeriodKey(p) = k]] :
              f \in { g \in [D -> UNION {ListsOf(p, minLen) : p \in D}] :
                        \A p \in D : g[p] \in ListsOf(p, minLen) } } :
          D \in SUBSET Periods }

\* what load_events returns: no period is empty
FreshMonths == MonthsOver(1)
\* what an archive file may hold
ArchivedMonths == MonthsOver(0)

OpenedFile == [exists |-> TRUE, content |-> <<>>]
OldFile == [exists |-> TRUE, content |-> <<S_BEGIN_VCALENDAR \o CRLF, S_END_VCALENDAR \o CRLF>>]

InitMerge ==
  /\ pc = "loaded"
  /\ \E fresh \in FreshMonths :
       /\ result = Ok(fresh)
       /\ months = fresh
  /\ \E file \in {None} \cup {Some(a) : a \in ArchivedMonths} :
       archive = [path |-> TRUE, file |-> file]
  /\ handle = NoHandle
  /\ line = <<>>
  /\ events = <<>>
  /\ output = <<>>
  /\ panicked = FALSE
  /\ stderr = <<>>
  /\ outputFile = OpenedFile

\* main: `match read_archive(archive_path)`; an absent or corrupt file is
\* logged and months stays as loaded
ReadArchiveAct ==
  /\ pc = "loaded"
  /\ archive.path
  /\ IF archive.file = None
     THEN /\ stderr' = Append(stderr, "Failed to read archive")
          /\ months' = months
     ELSE /\ months' = Extend(archive.file[1], months)
          /\ stderr' = stderr
  /\ pc' = "archive_read"
  /\ UNCHANGED <<line, events, output, panicked, handle, result, archive, outputFile>>

\* main: `write_archive(archive_path, &months)`, which may fail
WriteArchiveAct ==
  /\ pc = "archive_read"
  /\ \/ /\ archive' = [archive EXCEPT !.file = Some(months)]
        /\ stderr' = stderr
     \/ /\ stderr' = Append(stderr, "Failed to write archive")
        /\ archive' = archive
  /\ pc' = "archived"
  /\ UNCHANGED <<line, events, output, panicked, handle, result, months, outputFile>>

NextMerge == ReadArchiveAct \/ WriteArchiveAct

SpecMerge == InitMerge /\ [][NextMerge]_vars

\* C5: after the merge the mapping has the keys of fresh and of archived;
\* a key of fresh maps to fresh's list alone, a key of archived only keeps
\* its archived list.
C5_MergeOverwrites ==
  (pc = "archive_read" /\ archive.file # None) =>
    LET fresh == result.value
        archived == archive.file[1]
    IN /\ DOMAIN months = DOMAIN fresh \cup DOMAIN archived
       /\ \A k \in DOMAIN fresh : months[k] = fresh[k]
       /\ \A k \in DOMAIN archived \ DOMAIN fresh : months[k] = archived[k]

\* a merge where a period of fresh replaced a different, non-empty archived
\* list and another period came from the archive alone
C5_Witness ==
  /\ pc = "archive_read"
  /\ archive.file # None
  /\ \E k \in DOMAIN result.value \cap DOMAIN archive.file[1] :
       /\ archive.file[1][k] # <<>>
       /\ archive.file[1][k] # result.value[k]
       /\ months[k] = result.value[k]
  /\ \E k \in DOMAIN archive.file[1] \ DOMAIN result.value :
       months[k] = archive.file[1][k]

-----------------------------------------------------------------------------
(* Spec: a run of main over an input document *)

\* the date text base moved to day 14 + d of month c of 2024
DtFor(base, c, d) == [base EXCEPT ![4] = 49, ![5] = 52 + d, ![8] = 48 + c]

\* the name of the event at block b of day d of calendar c
NameAt(c, d, b) == <<69, 48 + c, 48 + d, 48 + b>>

\* the event-kind label at block b of day d
LabelAt(d, b) ==
  CASE (d + b) % 3 = 0 -> S_LEHRVERANSTALTUNG
    [] (d + b) % 3 = 1 -> S_SONSTIGER_TERMIN
    [] OTHER -> S_PRUEFUNG

Defects ==
  {"no link", "no tooltip", "no type label", "no table", "one division",
   "no creation text", "no prefix", "short creation", "bad creation",
   "split char", "bad begin", "bad end", "unknown label"}

\* the event block at <<c, d, b>>, well-formed ("none") or with one defect
DefectBlock(defect, c, d, b) ==
  LET label == LabelAt(d, b)
      name == NameAt(c, d, b)
      dt == DtFor(T_DT_GOOD, c, d)
      good == Tooltip(label, T_CC_GOOD, dt, name, Some(T_INF))
  IN CASE defect = "no link" ->
            Element("div", <<Attr("class", "month_block")>>, <<Text(T_LINK_TEXT)>>)
       [] defect = "no tooltip" ->
            Element("div", <<Attr("class", "month_block")>>,
              <<Element("a", <<>>, <<Text(T_LINK_TEXT)>>)>>)
       [] defect = "no type label" -> Block(Tail(good))
       [] defect = "no table" -> Block(SubSeq(good, 1, 3))
       [] defect = "one division" -> Block(<<good[1], good[2], good[4]>>)
       [] defect = "no creation text" ->
            Block(<<good[1], Element("div", <<>>, <<>>), good[3], good[4]>>)
       [] defect = "no prefix" -> EventBlock(label, T_CC_NO_PREFIX, dt, name, Some(T_INF))
       [] defect = "short creation" -> EventBlock(label, T_CC_SHORT, dt, name, Some(T_INF))
       [] defect = "bad creation" ->
            EventBlock(label, T_CC_UNPARSEABLE, dt, name, Some(T_INF))
       [] defect = "split char" ->
            EventBlock(label, T_CC_SPLIT_CHAR, dt, name, Some(T_INF))
       [] defect = "bad begin" ->
            EventBlock(label, T_CC_GOOD, DtFor(T_DT_BAD_BEGIN, c, d), name, Some(T_INF))
       [] defect = "bad end" ->
            EventBlock(label, T_CC_GOOD, DtFor(T_DT_BAD_END, c, d), name, Some(T_INF))
       [] defect = "unknown label" ->
            EventBlock(S_UNBEKANNT, T_CC_GOOD, dt, name, Some(T_INF))
       [] OTHER -> Block(good)

\* the day cell d of calendar c: the day number, then MaxBlocks event blocks
DayCell(c, d, pos, defect) ==
  Element("td", <<Attr("class", "month_cell")>>,
    <<DayNumberDiv>> \o
    [b \in 1..MaxBlocks |->
       DefectBlock(IF pos = <<c, d, b>> THEN defect ELSE "none", c, d, b)])

\* a calendar: one row of a week-number cell, MaxDays day cells and a day
\* without events
CalendarDiv(c, pos, defect) ==
  Element("div", <<Attr("class", "calendar")>>,
    <<Table(<<Element("tr", <<>>,
        <<Element("td", <<Attr("class", "month_week")>>, <<Text(T_DAY_NUMBER)>>)>>
        \o [d \in 1..MaxDays |-> DayCell(c, d, pos, defect)]
        \o <<Element("td", <<Attr("class", "month_cell")>>, <<DayNumberDiv>>)>>)>>)>>)

DocumentNode(children) ==
  [kind |-> "Document", name |-> "", attrs |-> <<>>, children |-> children,
   contents |-> <<>>]

\* a parsed document whose body holds the given nodes
HtmlDocument(bodyChildren) ==
  DocumentNode(<<Element("html", <<>>,
    <<Element("head", <<>>, <<>>), Element("body", <<>>, bodyChildren)>>)>>)

\* a parsed frameset document: html5ever builds no body for it
FramesetDocument ==
  DocumentNode(<<Element("html", <<>>,
    <<Element("head", <<>>, <<>>), Element("frameset", <<>>, <<>>)>>)>>)

CalendarDocument(pos, defect) ==
  HtmlDocument(
    <<Element("div", <<Attr("class", "header")>>, <<Text(T_MATHE)>>)>>
    \o [c \in 1..MaxMonths |-> CalendarDiv(c, pos, defect)])

Positions == (1..MaxMonths) \X (1..MaxDays) \X (1..MaxBlocks)

\* what parse_document(..).read_from(..) yields: None when the read fails
Documents ==
  {None, Some(FramesetDocument), Some(HtmlDocument(<<>>)),
   Some(CalendarDocument(<<0, 0, 0>>, "none"))}
  \cup {Some(CalendarDocument(pos, defect)) : pos \in Positions, defect \in Defects}

\* an archive file of an earlier run
ArchiveA == [k \in {PeriodKey(Period1)} |-> <<PeriodEvent(Period1, 1)>>]

Nows == {Time0, Time2}

Init ==
  /\ pc = "start"
  /\ handle \in Documents
  /\ archive \in {[path |-> FALSE, file |-> None], [path |-> TRUE, file |-> None],
                  [path |-> TRUE, file |-> Some(ArchiveA)]}
  /\ outputFile \in {NoFile, OldFile}
  /\ line = <<>>
  /\ events = <<>>
  /\ output = <<>>
  /\ panicked = FALSE
  /\ result = NoResult
  /\ stderr = <<>>
  /\ months = NoMonths

\* main: `match File::open(opts.input)`
OpenInputAct ==
  /\ pc = "start"
  /\ \/ /\ pc' = "input_open"
        /\ stderr' = stderr
     \/ /\ pc' = "exit"
        /\ stderr' = Append(stderr, "Failed to open input file")
  /\ UNCHANGED <<line, events, output, panicked, handle, result, months, archive,
                 outputFile>>

\* main: `match OpenOptions::new()...truncate(true).create(true).open(opts.output)`
OpenOutputAct ==
  /\ pc = "input_open"
  /\ \/ /\ pc' = "output_open"
        /\ outputFile' = OpenedFile
        /\ stderr' = stderr
     \/ /\ pc' = "exit"
        /\ outputFile' = outputFile
        /\ stderr' = Append(stderr, "Failed to open output file")
  /\ UNCHANGED <<line, events, output, panicked, handle, result, months, archive>>

\* main: `let res = load_events(&mut input_file)` up to `res.unwrap()`
LoadEventsAct ==
  /\ pc = "output_open"
  /\ LET Loaded(res) ==
           /\ result' = res.result
           /\ panicked' = (res.result.tag = "Panic")
           /\ stderr' = stderr \o res.log
                \o (IF res.result.tag = "Err" THEN <<"Failed to load events from file">>
                    ELSE <<>>)
           /\ months' = IF res.result.tag = "Ok" THEN res.result.value ELSE months
           /\ pc' = CASE res.result.tag = "Ok" -> "loaded"
                      [] res.result.tag = "Err" -> "exit"
                      [] OTHER -> "aborted"
     IN Loaded(LoadEvents(handle))
  /\ UNCHANGED <<line, events, output, handle, archive, outputFile>>

\* main: `if let Some(archive_path) = &opts.archive` without an archive
NoArchiveAct ==
  /\ pc = "loaded"
  /\ ~archive.path
  /\ pc' = "archived"
  /\ UNCHANGED <<line, events, output, panicked, handle, result, stderr, months,
                 archive, outputFile>>

\* main: `write_calendar(&mut output_file,
\*                       &months.into_values().flatten().collect())`
WriteOutputAct ==
  /\ pc = "archived"
  /\ LET collected == IntoValuesFlatten(months)
         Written(sink) ==
           /\ outputFile' = [exists |-> TRUE, content |-> sink.writes]
           /\ panicked' = sink.panicked
           /\ pc' = IF sink.panicked THEN "aborted" ELSE "exit"
     IN /\ events' = collected
        /\ \E now \in Nows : Written(WriteCalendar(EmptySink, collected, now))
  /\ UNCHANGED <<line, output, handle, result, stderr, months, archive>>

Next ==
  \/ OpenInputAct
  \/ OpenOutputAct
  \/ LoadEventsAct
  \/ NoArchiveAct
  \/ ReadArchiveAct
  \/ WriteArchiveAct
  \/ WriteOutputAct

Spec == Init /\ [][Next]_vars

\* the event blocks the extractor is to look at: the marked divisions after
\* the first one of every month cell of every calendar of the body
CandidateBlocks(dom) ==
  LET body == GetNodeByTagName(GetNodeByTagName(dom, "html")[1], "body")[1]
      IsCalendar(h) == GetAttributeValue(h, "class") = Some("calendar")
      IsCell(h) == GetAttributeValue(h, "class") = Some("month_cell")
      IsBlock(h) == GetAttributeValue(h, "class") = Some("month_block")
      calendars == SelectSeq(GetNodesByTagName(body, "div"), IsCalendar)
      RowsOf(cal) ==
        GetNodesByTagName(
          GetNodeByTagName(GetNodeByTagName(cal, "table")[1], "tbody")[1], "tr")
      CellsOf(cal) ==
        SelectSeq(Flatten([i \in 1..Len(RowsOf(cal)) |->
                             GetNodesByTagName(RowsOf(cal)[i], "td")]), IsCell)
      BlocksOf(cell) ==
        LET divs == GetNodesByTagName(cell, "div")
        IN IF divs = <<>> THEN {} ELSE Range(SelectSeq(Tail(divs), IsBlock))
  IN UNION { UNION { BlocksOf(cell) : cell \in Range(CellsOf(cal)) } :
             cal \in Range(calendars) }

\* the label of an event block whose extraction succeeds
LabelOf(block) ==
  GetContent(GetNodeByTagName(
    GetNodeByTagName(GetNodeByTagName(block, "a")[1], "span")[1], "strong")[1])[1]

\* a document with html and body
HasBody(dom) ==
  /\ dom # None
  /\ GetNodeByTagName(dom[1], "html") # None
  /\ GetNodeByTagName(GetNodeByTagName(dom[1], "html")[1], "body") # None

\* the events load_events returned
Extracted(loaded) == UNION {Range(loaded[k]) : k \in DOMAIN loaded}

\* C9: once load_events has run on a document with a body it has returned
\* successfully, every block whose own extraction succeeds is among the
\* returned events whatever fails in the other blocks, and the event kind
\* follows the label.
C9_FailureIsolation ==
  (result # NoResult /\ HasBody(handle)) =>
    /\ result.tag = "Ok"
    /\ \A block \in CandidateBlocks(handle[1]) :
         LET processed == ProcessEvent(block) IN
           processed.tag = "Ok" =>
             /\ processed.value \in Extracted(result.value)
             /\ LabelOf(block) = S_PRUEFUNG => processed.value.data = Exam
             /\ LabelOf(block) = S_LEHRVERANSTALTUNG =>
                  processed.value.data.tag = "Lecture"
             /\ LabelOf(block) = S_SONSTIGER_TERMIN => processed.value.data = Other

\* the same statement for the documents where no creation text is cut
\* inside a character
C9_IsolationWithoutSplitChar ==
  (\A block \in (IF HasBody(handle) THEN CandidateBlocks(handle[1]) ELSE {}) :
     ProcessEvent(block).tag # "Panic")
  => C9_FailureIsolation

\* C10: a run that aborted on a document without html or body, or on an
\* unreadable stream, has left the output file and the archive as they
\* were; every other run that reached its end after opening the files has
\* written the calendar of the extracted events.
C10_FatalErrorLeavesNoOutput ==
  /\ (pc = "aborted" /\ ~HasBody(handle)) =>
       /\ outputFile \in {NoFile, OldFile}
       /\ archive.file \in {None, Some(ArchiveA)}
  /\ (pc \in {"aborted", "exit"} /\ result # NoResult /\ HasBody(handle)) =>
       \E now \in Nows :
         outputFile =
           [exists |-> TRUE,
            content |-> WriteCalendar(EmptySink, IntoValuesFlatten(months), now).writes]

-----------------------------------------------------------------------------
(* SpecHash: Event::hash on the Events of a Vec<Event>, and the UID lines   *)
(* write_calendar derives from it                                           *)

Epoch == [year |-> 1970, month |-> 1, day |-> 1, hour |-> 0, minute |-> 0]
Time1Later == [Time1 EXCEPT !.hour = 10, !.minute = 15]
Time1NextDay == [Time1 EXCEPT !.day = 16]
Time2Later == [Time2 EXCEPT !.hour = 12]

HashCreations == {None, Some(Time0), Some(Epoch)}
HashNames == {T_MATHE, T_DEUTSCH}
HashCreators == {None, Some(T_DOE)}
HashBegins == {Time1, Time1Later, Time1NextDay}

\* an Event with nothing but the required fields, and one with a later end,
\* a lecturer, a location, a course and Lecture data
BareEvent == BaseEvent
RichEvent ==
  [BaseEvent EXCEPT !.end = Time2Later,
                    !.lecturers = <<[name |-> T_DOE]>>,
                    !.locations = <<T_H1>>,
                    !.courses = <<T_INF>>,
                    !.data = Lecture(Some(T_48), Some(T_DEUTSCH), Some(T_VORLESUNG),
                                     <<T_MATHE>>, Some(T_48))]

HashEvents ==
  {[base EXCEPT !.creation = cr, !.name = n, !.creator = c, !.begin = b] :
     base \in {BareEvent, RichEvent}, cr \in HashCreations, n \in HashNames,
     c \in HashCreators, b \in HashBegins}

\* the first Event of a pair: a bare one named "Mathe" that begins at Time1
FirstEvents ==
  {[BareEvent EXCEPT !.creation = cr, !.creator = c] :
     cr \in {None, Some(Time0)}, c \in HashCreators}

InitHash ==
  /\ pc = "serialize"
  /\ events \in {<<first, second>> : first \in FirstEvents, second \in HashEvents}
  /\ line = <<>>
  /\ output = <<>>
  /\ panicked = FALSE
  /\ handle = NoHandle
  /\ result = NoResult
  /\ stderr = <<>>
  /\ months = NoMonths
  /\ archive = None
  /\ outputFile = NoFile

\* event.hash() on every Event of the Vec
HashAct ==
  /\ pc = "serialize"
  /\ result = NoResult
  /\ result' = [tag |-> "Hashes", value |-> [i \in 1..Len(events) |-> Hash(events[i])]]
  /\ UNCHANGED <<pc, line, events, output, panicked, handle, stderr, months, archive,
                 outputFile>>

NextHash == HashAct \/ WriteCalendarAct

SpecHash == InitHash /\ [][NextHash]_vars

\* the four inputs the hash is said to depend on
HashedFields(event) ==
  <<IF event.creation = None THEN 0 ELSE Timestamp(event.creation[1]),
    event.name,
    <<event.begin.year, event.begin.month, event.begin.day>>,
    event.creator>>

\* the UID lines of the produced document, in order
UidLines ==
  LET IsUid(l) == KeyOf(l) = S_UID
  IN SelectSeq(SplitLines(Unfold(Document)), IsUid)

\* the UID line of an Event whose hash is h
UidLineOf(h) == S_UID \o COLON \o DecimalDigits(h) \o S_AT_ICALNIGMA

\* C11: two Events that agree on creation seconds (0 when absent), name,
\* year/month/day of begin and creator have the same hash and the same UID
\* line `{hash}@icalnigma`, whatever their other fields; and the hash
\* write_calendar computes for an Event is the one an earlier call returned.
C11_HashOfFourInputs ==
  LET SameUids(uids) ==
        /\ Len(uids) = Len(events)
        /\ \A i, j \in 1..Len(events) :
             HashedFields(events[i]) = HashedFields(events[j]) => uids[i] = uids[j]
        /\ result.tag = "Hashes" =>
             \A i \in 1..Len(events) : uids[i] = UidLineOf(result.value[i])
  IN /\ result.tag = "Hashes" =>
          \A i, j \in 1..Len(events) :
            HashedFields(events[i]) = HashedFields(events[j]) =>
              result.value[i] = result.value[j]
     /\ pc = "calendar_written" => SameUids(UidLines)

\* two Events with the same four inputs and a different begin time of day,
\* end, lecturers, locations, courses and data have been hashed and written
C11_Witness ==
  /\ pc = "calendar_written"
  /\ result.tag = "Hashes"
  /\ Len(events) = 2
  /\ HashedFields(events[1]) = HashedFields(events[2])
  /\ events[1].begin # events[2].begin
  /\ events[1].end # events[2].end
  /\ events[1].lecturers # events[2].lecturers
  /\ events[1].locations # events[2].locations
  /\ events[1].courses # events[2].courses
  /\ events[1].data # events[2].data
  /\ events[1].creation = Some(Time0)
  /\ result.value[1] = result.value[2]
  /\ UidLines = <<UidLineOf(result.value[1]), UidLineOf(result.value[2])>>

=============================================================================
